---- MODULE Spec2Model ----
(***************************************************************************)
(* Model of the proxy swarm dispatcher (class ProxySwarm) and of its       *)
(* progress estimator (class Timer).                                      *)
(*                                                                         *)
(* Execution model: one JavaScript event loop.  The code between two       *)
(* awaits runs to completion, so every action below is one such segment.   *)
(* Numbers are JavaScript doubles in the code; the model uses exact        *)
(* rationals <<numerator, denominator>> in lowest terms.                   *)
(* Strings are sequences of one-character strings.                         *)
(***************************************************************************)
EXTENDS Integers, Sequences, FiniteSets, TLC

\* ------------------------------------------------------------------ bounds
MaxItems == 3
MaxProxies == 2
MaxTicks == 2
MaxEtaSteps == 130
MaxRemTotal == 12
MaxPasses == 3
MaxInstances == 2
MaxPolls == 3
MaxOverlapItems == 2

\* ------------------------------------------------------- program constants
\* setTimeout(() => controller.abort(), 5000)
TIMEOUT_MS == 5000
\* alpha: 0.18 = 9/50
AlphaNum == 9
AlphaDen == 50

\* The clock of the model advances in steps of half a timeout.
Quantum == TIMEOUT_MS \div 2
MaxTime == MaxTicks * Quantum

\* --------------------------------------------------------------- rationals
Min(a, b) == IF a <= b THEN a ELSE b
AbsInt(a) == IF a < 0 THEN -a ELSE a

RECURSIVE Gcd(_, _)
Gcd(a, b) == IF b = 0 THEN a ELSE Gcd(b, a % b)

\* n/d in lowest terms, d > 0
Rat(n, d) ==
  LET s == IF d < 0 THEN -1 ELSE 1
      g == Gcd(AbsInt(n), AbsInt(d))
  IN  <<(s * n) \div g, (s * d) \div g>>
RatInt(n) == <<n, 1>>
RatAdd(a, b) == Rat(a[1] * b[2] + b[1] * a[2], a[2] * b[2])
RatSub(a, b) == Rat(a[1] * b[2] - b[1] * a[2], a[2] * b[2])
RatMul(a, b) ==
  LET g1 == Gcd(AbsInt(a[1]), b[2])
      g2 == Gcd(AbsInt(b[1]), a[2])
  IN  Rat((a[1] \div g1) * (b[1] \div g2), (a[2] \div g2) * (b[2] \div g1))
RatDivInt(a, m) ==
  LET g == Gcd(AbsInt(a[1]), m)
  IN  Rat(a[1] \div g, a[2] * (m \div g))
RatAbs(a) == <<AbsInt(a[1]), a[2]>>
\* Math.floor(a)
RatFloor(a) == a[1] \div a[2]
\* Math.round(a): the nearest integer, halves rounded up
RatRound(a) == (2 * a[1] + a[2]) \div (2 * a[2])
\* Math.floor(a / m) for an integer m > 0; floor(a/m) = floor(floor(a)/m)
RatFloorDiv(a, m) == RatFloor(a) \div m
\* a % m for a >= 0 and an integer m > 0
RatMod(a, m) == RatSub(a, RatInt(m * RatFloorDiv(a, m)))
RatIsZero(a) == a[1] = 0

\* ----------------------------------------------------------------- strings
DigitChars == <<"0", "1", "2", "3", "4", "5", "6", "7", "8", "9">>

\* Number.prototype.toString() of a non-negative integer
RECURSIVE NatToString(_)
NatToString(n) ==
  IF n < 10 THEN <<DigitChars[n + 1]>>
  ELSE NatToString(n \div 10) \o <<DigitChars[(n % 10) + 1]>>

\* String.prototype.padStart(width, ch)
RECURSIVE padStart(_, _, _)
padStart(s, width, ch) ==
  IF Len(s) >= width THEN s ELSE padStart(<<ch>> \o s, width, ch)

\* Array.prototype.join(sep) of a sequence of strings
RECURSIVE join(_, _)
join(parts, sep) ==
  IF Len(parts) = 0 THEN <<>>
  ELSE IF Len(parts) = 1 THEN parts[1]
  ELSE parts[1] \o sep \o join(Tail(parts), sep)

\* ------------------------------------------------------- Timer.formatETA
formatETA(time) ==
  LET delta0  == RatDivInt(RatAbs(time), 1000)
      days    == RatFloorDiv(delta0, 86400)
      delta1  == RatSub(delta0, RatInt(days * 86400))
      hours   == RatFloorDiv(delta1, 3600) % 24
      delta2  == RatSub(delta1, RatInt(hours * 3600))
      minutes == RatFloorDiv(delta2, 60) % 60
      delta3  == RatSub(delta2, RatInt(minutes * 60))
      seconds == RatRound(RatMod(delta3, 60))
  IN  join(<<padStart(NatToString(days), 3, "0"),
             padStart(NatToString(hours), 2, "0"),
             padStart(NatToString(minutes), 2, "0"),
             padStart(NatToString(seconds), 2, "0")>>, <<":">>)

\* ------------------------------------------------------------- Timer.tick
Alpha == Rat(AlphaNum, AlphaDen)

\* Mutant of tickEma: the weights of the new sample and of the history swapped
tickEmaSwapped(ema, itemElapsedTime) ==
  IF RatIsZero(ema) THEN RatInt(itemElapsedTime)
  ELSE RatAdd(RatMul(RatSub(RatInt(1), Alpha), RatInt(itemElapsedTime)),
              RatMul(Alpha, ema))

\* this.config.ema === 0 ? itemElapsedTime : alpha * itemElapsedTime + (1 - alpha) * ema
tickEma(ema, itemElapsedTime) ==
  IF RatIsZero(ema) THEN RatInt(itemElapsedTime)
  ELSE RatAdd(RatMul(Alpha, RatInt(itemElapsedTime)),
              RatMul(RatSub(RatInt(1), Alpha), ema))

\* Mutant of tickEta: the estimate is not divided by the scale factor
tickEtaUnscaled(ema, remainingItems, scaleFactor) == RatMul(ema, RatInt(remainingItems))

\* (this.config.ema * remainingItems) / scaleFactor
tickEta(ema, remainingItems, scaleFactor) ==
  RatDivInt(RatMul(ema, RatInt(remainingItems)), scaleFactor)

\* Mutant of remainingDisplay: the count padded to the width of the count
\* itself, that is not padded at all
remainingDisplayUnpadded(itemsProcessed, totalItems) ==
  padStart(NatToString(itemsProcessed), Len(NatToString(itemsProcessed)), " ")
    \o <<"/">> \o NatToString(totalItems)

\* processed.toString().padStart(total.toString().length, " ") + "/" + total
remainingDisplay(itemsProcessed, totalItems) ==
  padStart(NatToString(itemsProcessed), Len(NatToString(totalItems)), " ")
    \o <<"/">> \o NatToString(totalItems)

\* Mutant of tick: the item's duration taken as itemStartTime - Date.now()
tickNegElapsed(config, itemStartTime, scaleFactor, t) ==
  LET processed == config.itemsProcessed + 1
      elapsed   == itemStartTime - t
      ema       == tickEma(config.ema, elapsed)
      remaining == config.totalItems - processed
      eta       == tickEta(ema, remaining, scaleFactor)
  IN  [config    |-> [config EXCEPT !.itemsProcessed = processed, !.ema = ema],
       sample    |-> elapsed,
       etaValue  |-> eta,
       eta       |-> formatETA(eta),
       remaining |-> remainingDisplay(processed, config.totalItems)]

\* Timer.tick(itemStartTime, scaleFactor) at clock value t: the new config and
\* the returned displays (elapsed, the wall-clock string, is not modelled)
tick(config, itemStartTime, scaleFactor, t) ==
  LET processed == config.itemsProcessed + 1
      elapsed   == t - itemStartTime
      ema       == tickEma(config.ema, elapsed)
      remaining == config.totalItems - processed
      eta       == tickEta(ema, remaining, scaleFactor)
  IN  [config    |-> [config EXCEPT !.itemsProcessed = processed, !.ema = ema],
       sample    |-> elapsed,
       etaValue  |-> eta,
       eta       |-> formatETA(eta),
       remaining |-> remainingDisplay(processed, config.totalItems)]

\* ------------------------------------------------------------------- state
VARIABLES
  proxies,          \* this.proxies: the ordered host list
  urls,             \* the items handed to run
  hasErrorHandler,  \* whether run got an errorHandler
  runPc,            \* where run is: created, init, wave, done, rejected
  wave,             \* index of the chunk whose Promise.all run awaits
  tasks,            \* per item: the state of its task (the chunk.map callback)
  timer,            \* the Timer's config
  samples,          \* history: the durations tick measured, in order
  log,              \* the console output of run, in order
  now,              \* Date.now()
  ctorErrors,       \* what the constructor wrote with console.error
  fmtIn,            \* input of a stand-alone formatETA call
  fmtOut,           \* its result
  remIn,            \* <<itemsProcessed, totalItems>> of a stand-alone remaining display
  remOut,           \* its result
  gatePc,           \* where create / waitForProxiesReady is
  running,          \* waitForProxiesReady: the Set of hosts that answered
  probes,           \* per position of the proxy list: the probe of the current pass
  pass,             \* number of the current polling pass
  firstOk,          \* history: per host, the pass of its first successful probe
  gateLog,          \* the console output of create
  aws,              \* AWSProxyManager.waitForInstancesRunning and the EC2 instances
  runs,             \* two run invocations on one ProxySwarm instance
  query             \* a top-level call of AuthManager.query

runVars == <<proxies, urls, hasErrorHandler, ctorErrors, runPc, wave, tasks, timer, samples,
             log, now>>
fmtVars == <<fmtIn, fmtOut, remIn, remOut>>
gateVars == <<gatePc, running, probes, pass, firstOk, gateLog>>
extVars == <<aws, runs, query>>
vars == <<proxies, urls, hasErrorHandler, ctorErrors, runPc, wave, tasks, timer, samples,
          log, now, fmtIn, fmtOut, remIn, remOut, gatePc, running, probes, pass, firstOk,
          gateLog, aws, runs, query>>

Hosts == 1..MaxProxies

\* The host lists, up to renaming of hosts (a host may be listed twice)
ProxyLists ==
  {s \in UNION {[1..p -> Hosts] : p \in 0..MaxProxies} :
     \A i \in DOMAIN s : \/ s[i] = 1
                         \/ \E j \in 1..(i - 1) : s[j] >= s[i] - 1}

\* The host lists create resolves for: waitForProxiesReady returns once the Set
\* of hosts that answered has as many members as the list has entries, which a
\* list naming a host twice never reaches
ReadyProxyLists ==
  {s \in ProxyLists : \A i, j \in DOMAIN s : s[i] = s[j] => i = j}

NoSlot == 0 - 1
NoTime == 0 - 1

IdleTask ==
  [st |-> "idle", slot |-> NoSlot, host |-> 0, start |-> NoTime,
   timeout |-> "none", aborted |-> FALSE, success |-> FALSE,
   req |-> "none", hres |-> "none", eres |-> "none", wv |-> 0, ev |-> <<>>,
   fetchCalls |-> 0, handlerCalls |-> 0, errCalls |-> 0, tickCalls |-> 0]

NoTimer == [ema |-> RatInt(0), startTime |-> NoTime, totalItems |-> 0, itemsProcessed |-> 0]

\* console.error(`Error: No proxies provided in proxy array`.red)
NoProxiesError == "Error: No proxies provided in proxy array"

\* Mutant of constructorErrors: the empty list is not reported
constructorSilent(list) == <<>>

\* the constructor's check of config.proxies.length
constructorErrors(list) == IF Len(list) = 0 THEN <<NoProxiesError>> ELSE <<>>

Range(f) == {f[i] : i \in DOMAIN f}

\* console.log(`Waiting for proxies to be ready...`)
WaitingLine == [kind |-> "waiting", host |-> 0]
\* console.log(` ${proxy} is ready`.green)
ReadyLine(h) == [kind |-> "ready", host |-> h]

\* create has resolved: every host answered (here, all in the first pass)
InitGatePassed ==
  /\ gatePc = "ready"
  /\ running = Range(proxies)
  /\ probes = [i \in DOMAIN proxies |-> "ok"]
  /\ pass = IF Len(proxies) = 0 THEN 0 ELSE 1
  /\ firstOk = [h \in Hosts |-> IF h \in Range(proxies) THEN 1 ELSE 0]
  /\ gateLog = <<WaitingLine>> \o [i \in DOMAIN proxies |-> ReadyLine(proxies[i])]

InitRun ==
  /\ proxies \in ReadyProxyLists
  /\ \E n \in 0..MaxItems : urls = [k \in 1..n |-> k]
  /\ hasErrorHandler \in BOOLEAN
  /\ ctorErrors = constructorErrors(proxies)
  /\ runPc = "created"
  /\ wave = 0
  /\ tasks = [k \in DOMAIN urls |-> IdleTask]
  /\ timer = NoTimer
  /\ samples = <<>>
  /\ log = <<>>
  /\ now = 0

\* no AWS call, no second run and no query under way
AwsIdle == [pc |-> "none"]
RunsIdle == [pc |-> "none"]
QueryIdle == [pc |-> "none"]

InitExtIdle ==
  /\ aws = AwsIdle
  /\ runs = RunsIdle
  /\ query = QueryIdle

InitFmtIdle ==
  /\ fmtIn = RatInt(0)
  /\ fmtOut = <<>>
  /\ remIn = <<0, 0>>
  /\ remOut = <<>>

Init == InitRun /\ InitFmtIdle /\ InitGatePassed /\ InitExtIdle

\* ------------------------------------------------------------- _.chunk
CeilDiv(a, b) == (a + b - 1) \div b

\* Mutant of chunk: a last chunk shorter than size is dropped
chunkWhole(array, size) ==
  IF Len(array) = 0 \/ size < 1 THEN <<>>
  ELSE [j \in 1..(Len(array) \div size) |->
          SubSeq(array, (j - 1) * size + 1, j * size)]

\* Mutant of chunk: an empty array gives one empty chunk
chunkEmptyOne(array, size) ==
  IF size < 1 THEN <<>>
  ELSE IF Len(array) = 0 THEN <<<<>>>>
  ELSE [j \in 1..CeilDiv(Len(array), size) |->
          SubSeq(array, (j - 1) * size + 1, Min(j * size, Len(array)))]

\* _.chunk(array, size): [] for an empty array or a size below 1
chunk(array, size) ==
  IF Len(array) = 0 \/ size < 1 THEN <<>>
  ELSE [j \in 1..CeilDiv(Len(array), size) |->
          SubSeq(array, (j - 1) * size + 1, Min(j * size, Len(array)))]

chunks == chunk(urls, Len(proxies))

\* --------------------------------------------------------- ProxySwarm.run
\* an entry of a task's event history; n is the processed count of a tick or
\* of a progress line, 0 otherwise
Ev(name) == [e |-> name, n |-> 0]
EvN(name, n) == [e |-> name, n |-> n]

Settled(t) == t.st \in {"fulfilled", "rejected"}
Active(t) == t.st \in {"fetching", "handling", "catching"}

\* Mutant of launch: the proxy index shifted by the wave number
launchShifted(ts, w) ==
  LET c == chunks[w]
  IN  [k \in DOMAIN ts |->
         IF \E i \in 0..(Len(c) - 1) : c[i + 1] = k
         THEN LET i == CHOOSE i \in 0..(Len(c) - 1) : c[i + 1] = k
                  m == (i + w - 1) % Len(proxies)
              IN  [ts[k] EXCEPT !.st = "fetching", !.slot = m,
                                !.host = proxies[m + 1], !.start = now,
                                !.timeout = "pending", !.wv = w,
                                !.ev = <<Ev("start"), Ev("timer"), Ev("request")>>,
                                !.fetchCalls = ts[k].fetchCalls + 1]
         ELSE ts[k]]

\* Mutant of launch: every task of a chunk takes proxies[0]
launchFirstProxy(ts, w) ==
  LET c == chunks[w]
  IN  [k \in DOMAIN ts |->
         IF \E i \in 0..(Len(c) - 1) : c[i + 1] = k
         THEN [ts[k] EXCEPT !.st = "fetching", !.slot = 0,
                            !.host = proxies[1], !.start = now,
                            !.timeout = "pending", !.wv = w,
                            !.ev = <<Ev("start"), Ev("timer"), Ev("request")>>,
                            !.fetchCalls = ts[k].fetchCalls + 1]
         ELSE ts[k]]

\* chunk.map(async (url, i) => ...) up to its first await, for every item of
\* chunk w: proxy = proxies[i], itemStartTime = Date.now(), the abort timer is
\* set and fetch(url, requestConfig) is issued
launch(ts, w) ==
  LET c == chunks[w]
  IN  [k \in DOMAIN ts |->
         IF \E i \in 0..(Len(c) - 1) : c[i + 1] = k
         THEN LET i == CHOOSE i \in 0..(Len(c) - 1) : c[i + 1] = k
              IN  [ts[k] EXCEPT !.st = "fetching", !.slot = i,
                                !.host = proxies[i + 1], !.start = now,
                                !.timeout = "pending", !.wv = w,
                                !.ev = <<Ev("start"), Ev("timer"), Ev("request")>>,
                                !.fetchCalls = ts[k].fetchCalls + 1]
         ELSE ts[k]]

DoneLine ==
  [kind |-> "done", item |-> 0, ok |-> TRUE, processed |-> 0,
   eta |-> <<>>, remaining |-> <<>>, host |-> 0]

\* run(urls, handler, errorHandler?) up to the await of line 201
RunStart ==
  /\ runPc = "created"
  /\ timer' = [ema |-> RatInt(0), startTime |-> now,
               totalItems |-> Len(urls), itemsProcessed |-> 0]
  /\ runPc' = "init"
  /\ UNCHANGED <<proxies, urls, hasErrorHandler, ctorErrors, wave, tasks, samples, log, now>>
  /\ UNCHANGED fmtVars
  /\ UNCHANGED extVars
  /\ UNCHANGED gateVars

\* _.chunk and the first iteration of the for loop, or "Done" when there is
\* no chunk
RunDispatch ==
  /\ runPc = "init"
  /\ IF Len(chunks) = 0
     THEN /\ log' = Append(log, DoneLine)
          /\ runPc' = "done"
          /\ UNCHANGED <<wave, tasks>>
     ELSE /\ wave' = 1
          /\ tasks' = launch(tasks, 1)
          /\ runPc' = "wave"
          /\ UNCHANGED log
  /\ UNCHANGED <<proxies, urls, hasErrorHandler, ctorErrors, timer, samples, now>>
  /\ UNCHANGED fmtVars
  /\ UNCHANGED extVars
  /\ UNCHANGED gateVars

\* Mutant of WaveDone: the loop goes on as soon as one task of the chunk has
\* fulfilled (a race instead of Promise.all)
WaveDoneEarly ==
  /\ runPc = "wave"
  /\ \E i \in 1..Len(chunks[wave]) : tasks[chunks[wave][i]].st = "fulfilled"
  /\ IF wave < Len(chunks)
     THEN /\ wave' = wave + 1
          /\ tasks' = launch(tasks, wave + 1)
          /\ UNCHANGED <<runPc, log>>
     ELSE /\ log' = Append(log, DoneLine)
          /\ runPc' = "done"
          /\ UNCHANGED <<wave, tasks>>
  /\ UNCHANGED <<proxies, urls, hasErrorHandler, ctorErrors, timer, samples, now>>
  /\ UNCHANGED fmtVars
  /\ UNCHANGED extVars
  /\ UNCHANGED gateVars

\* await Promise.all(...) of the current chunk fulfils: the next iteration
\* of the for loop, or "Done" after the last chunk
WaveDone ==
  /\ runPc = "wave"
  /\ \A i \in 1..Len(chunks[wave]) : tasks[chunks[wave][i]].st = "fulfilled"
  /\ IF wave < Len(chunks)
     THEN /\ wave' = wave + 1
          /\ tasks' = launch(tasks, wave + 1)
          /\ UNCHANGED <<runPc, log>>
     ELSE /\ log' = Append(log, DoneLine)
          /\ runPc' = "done"
          /\ UNCHANGED <<wave, tasks>>
  /\ UNCHANGED <<proxies, urls, hasErrorHandler, ctorErrors, timer, samples, now>>
  /\ UNCHANGED fmtVars
  /\ UNCHANGED extVars
  /\ UNCHANGED gateVars

\* await Promise.all(...) rejects as soon as one task of the chunk rejects:
\* the exception leaves the for loop and run
RunReject ==
  /\ runPc = "wave"
  /\ \E i \in 1..Len(chunks[wave]) : tasks[chunks[wave][i]].st = "rejected"
  /\ runPc' = "rejected"
  /\ UNCHANGED <<proxies, urls, hasErrorHandler, ctorErrors, wave, tasks, timer, samples, log, now>>
  /\ UNCHANGED fmtVars
  /\ UNCHANGED extVars
  /\ UNCHANGED gateVars

\* Mutant of clearTimeout: the timer is left as it is
clearTimeoutNoop(t) == t

\* finally { clearTimeout(timeout) }
clearTimeout(t) == IF t = "pending" THEN "cleared" ELSE t

\* the catch block up to its await: errorHandler?.(url, error)
catch(t, cause) ==
  [t EXCEPT !.st = "catching",
            !.req = IF t.req = "none" THEN cause ELSE t.req,
            !.ev = IF hasErrorHandler THEN Append(t.ev, Ev("errorHandler")) ELSE t.ev,
            !.errCalls = IF hasErrorHandler THEN t.errCalls + 1 ELSE t.errCalls]

\* await fetch(url, requestConfig) fulfils: handler(res) is called
FetchOk(k) ==
  /\ tasks[k].st = "fetching"
  /\ tasks' = [tasks EXCEPT ![k] = [tasks[k] EXCEPT !.st = "handling", !.req = "ok",
                                       !.ev = tasks[k].ev \o <<Ev("response"), Ev("handler")>>,
                                       !.handlerCalls = tasks[k].handlerCalls + 1]]
  /\ UNCHANGED <<proxies, urls, hasErrorHandler, ctorErrors, runPc, wave, timer, samples, log, now>>
  /\ UNCHANGED fmtVars
  /\ UNCHANGED extVars
  /\ UNCHANGED gateVars

\* Mutant of FetchFail: a failed request is issued again
FetchFailRetry(k) ==
  /\ tasks[k].st = "fetching"
  /\ tasks' = [tasks EXCEPT ![k] =
                  [tasks[k] EXCEPT !.ev = tasks[k].ev \o <<Ev("requestError"), Ev("request")>>,
                                   !.fetchCalls = tasks[k].fetchCalls + 1]]
  /\ UNCHANGED <<proxies, urls, hasErrorHandler, ctorErrors, runPc, wave, timer, samples, log, now>>
  /\ UNCHANGED fmtVars
  /\ UNCHANGED extVars
  /\ UNCHANGED gateVars

\* await fetch(url, requestConfig) rejects (DNS, connection, proxy error)
FetchFail(k) ==
  /\ tasks[k].st = "fetching"
  /\ tasks' = [tasks EXCEPT ![k] =
                  catch([tasks[k] EXCEPT !.ev = Append(tasks[k].ev, Ev("requestError"))], "error")]
  /\ UNCHANGED <<proxies, urls, hasErrorHandler, ctorErrors, runPc, wave, timer, samples, log, now>>
  /\ UNCHANGED fmtVars
  /\ UNCHANGED extVars
  /\ UNCHANGED gateVars

\* Mutant of TimeoutFire: one AbortController for the whole run, the first
\* timer that fires aborts every request that is out
TimeoutFireShared(k) ==
  /\ tasks[k].timeout = "pending"
  /\ now >= tasks[k].start + TIMEOUT_MS
  /\ tasks' = [j \in DOMAIN tasks |->
                 IF tasks[j].timeout = "pending"
                 THEN LET t == [tasks[j] EXCEPT !.timeout = "fired", !.aborted = TRUE,
                                                !.ev = Append(tasks[j].ev, Ev("abort"))]
                      IN  IF t.st = "fetching" THEN catch(t, "timeout") ELSE t
                 ELSE tasks[j]]
  /\ UNCHANGED <<proxies, urls, hasErrorHandler, ctorErrors, runPc, wave, timer, samples, log, now>>
  /\ UNCHANGED fmtVars
  /\ UNCHANGED extVars
  /\ UNCHANGED gateVars

\* setTimeout(() => controller.abort(), 5000) fires: a pending fetch rejects
\* with an AbortError; after the fetch the abort only marks the signal
TimeoutFire(k) ==
  /\ tasks[k].timeout = "pending"
  /\ now >= tasks[k].start + TIMEOUT_MS
  /\ LET t == [tasks[k] EXCEPT !.timeout = "fired", !.aborted = TRUE,
                                !.ev = Append(tasks[k].ev, Ev("abort"))]
     IN  tasks' = [tasks EXCEPT ![k] = IF t.st = "fetching" THEN catch(t, "timeout") ELSE t]
  /\ UNCHANGED <<proxies, urls, hasErrorHandler, ctorErrors, runPc, wave, timer, samples, log, now>>
  /\ UNCHANGED fmtVars
  /\ UNCHANGED extVars
  /\ UNCHANGED gateVars

\* Mutant of ProgressLine: the line shows the item's position in the input
\* in place of the count of processed items
ProgressLineItem(k, t, r) ==
  [kind |-> "line", item |-> k, ok |-> t.success, processed |-> k,
   eta |-> r.eta, remaining |-> r.remaining, host |-> t.host]

\* the progress line of an item: console.log(infoStr) or console.error(infoStr.red)
ProgressLine(k, t, r) ==
  [kind |-> "line", item |-> k, ok |-> t.success, processed |-> r.config.itemsProcessed,
   eta |-> r.eta, remaining |-> r.remaining, host |-> t.host]

\* Mutant of finish: the progress line is written with the count the timer
\* had before the tick
finishStaleLine(k, t) ==
  LET r == tick(timer, t.start, Len(proxies), now)
      u == [t EXCEPT !.st = "fulfilled", !.timeout = clearTimeout(t.timeout),
                     !.ev = t.ev \o <<Ev("clearTimeout"), EvN("tick", r.config.itemsProcessed),
                                      EvN("line", timer.itemsProcessed)>>,
                     !.tickCalls = t.tickCalls + 1]
  IN  /\ tasks' = [tasks EXCEPT ![k] = u]
      /\ timer' = r.config
      /\ samples' = Append(samples, r.sample)
      /\ log' = Append(log, [ProgressLine(k, u, r) EXCEPT !.processed = timer.itemsProcessed])

\* the rest of the callback after try/catch/finally: clearTimeout, timer.tick,
\* the progress line; the task's promise fulfils
finish(k, t) ==
  LET r == tick(timer, t.start, Len(proxies), now)
      u == [t EXCEPT !.st = "fulfilled", !.timeout = clearTimeout(t.timeout),
                     !.ev = t.ev \o <<Ev("clearTimeout"), EvN("tick", r.config.itemsProcessed),
                                      EvN("line", r.config.itemsProcessed)>>,
                     !.tickCalls = t.tickCalls + 1]
  IN  /\ tasks' = [tasks EXCEPT ![k] = u]
      /\ timer' = r.config
      /\ samples' = Append(samples, r.sample)
      /\ log' = Append(log, ProgressLine(k, u, r))

\* await handler(res) fulfils: success = true
HandlerReturn(k) ==
  /\ tasks[k].st = "handling"
  /\ finish(k, [tasks[k] EXCEPT !.success = TRUE, !.hres = "returned",
                                 !.ev = Append(tasks[k].ev, Ev("handlerEnd"))])
  /\ UNCHANGED <<proxies, urls, hasErrorHandler, ctorErrors, runPc, wave, now>>
  /\ UNCHANGED fmtVars
  /\ UNCHANGED extVars
  /\ UNCHANGED gateVars

\* Mutant of HandlerThrow: the handler's exception is swallowed without
\* calling errorHandler
HandlerThrowSilent(k) ==
  /\ tasks[k].st = "handling"
  /\ tasks' = [tasks EXCEPT ![k] = [tasks[k] EXCEPT !.st = "catching", !.hres = "threw",
                                       !.ev = Append(tasks[k].ev, Ev("handlerEnd"))]]
  /\ UNCHANGED <<proxies, urls, hasErrorHandler, ctorErrors, runPc, wave, timer, samples, log, now>>
  /\ UNCHANGED fmtVars
  /\ UNCHANGED extVars
  /\ UNCHANGED gateVars

\* await handler(res) rejects: the catch block
HandlerThrow(k) ==
  /\ tasks[k].st = "handling"
  /\ tasks' = [tasks EXCEPT ![k] =
                  catch([tasks[k] EXCEPT !.hres = "threw",
                                         !.ev = Append(tasks[k].ev, Ev("handlerEnd"))], "ok")]
  /\ UNCHANGED <<proxies, urls, hasErrorHandler, ctorErrors, runPc, wave, timer, samples, log, now>>
  /\ UNCHANGED fmtVars
  /\ UNCHANGED extVars
  /\ UNCHANGED gateVars

\* await errorHandler?.(url, error) fulfils (at once when there is no errorHandler)
ErrorHandlerReturn(k) ==
  /\ tasks[k].st = "catching"
  /\ finish(k, [tasks[k] EXCEPT !.eres = IF hasErrorHandler THEN "returned" ELSE "none",
                                 !.ev = IF hasErrorHandler
                                        THEN Append(tasks[k].ev, Ev("errorHandlerEnd"))
                                        ELSE tasks[k].ev])
  /\ UNCHANGED <<proxies, urls, hasErrorHandler, ctorErrors, runPc, wave, now>>
  /\ UNCHANGED fmtVars
  /\ UNCHANGED extVars
  /\ UNCHANGED gateVars

\* await errorHandler(url, error) rejects: finally runs and the exception
\* leaves the callback, whose promise rejects
ErrorHandlerThrow(k) ==
  /\ tasks[k].st = "catching"
  /\ hasErrorHandler
  /\ tasks' = [tasks EXCEPT ![k] = [tasks[k] EXCEPT !.st = "rejected", !.eres = "threw",
                                       !.ev = tasks[k].ev \o <<Ev("errorHandlerEnd"),
                                                               Ev("clearTimeout")>>,
                                       !.timeout = clearTimeout(tasks[k].timeout)]]
  /\ UNCHANGED <<proxies, urls, hasErrorHandler, ctorErrors, runPc, wave, timer, samples, log, now>>
  /\ UNCHANGED fmtVars
  /\ UNCHANGED extVars
  /\ UNCHANGED gateVars

\* Time passes while some task awaits: by one quantum, but not past the
\* deadline of a pending abort timer (a due timer fires before the clock
\* moves on)
Deadlines == {tasks[k].start + TIMEOUT_MS : k \in {j \in DOMAIN tasks : tasks[j].timeout = "pending"}}

Advance ==
  /\ now < MaxTime
  /\ \E k \in DOMAIN tasks : Active(tasks[k])
  /\ \A d \in Deadlines : d > now
  /\ \E t \in {Min(now + Quantum, MaxTime)} \cup {d \in Deadlines : d < now + Quantum} :
       /\ \A d \in Deadlines : t <= d
       /\ now' = t
  /\ UNCHANGED <<proxies, urls, hasErrorHandler, ctorErrors, runPc, wave, tasks, timer, samples, log>>
  /\ UNCHANGED fmtVars
  /\ UNCHANGED extVars
  /\ UNCHANGED gateVars

Next ==
  \/ RunStart
  \/ RunDispatch
  \/ WaveDone
  \/ RunReject
  \/ Advance
  \/ \E k \in DOMAIN tasks : FetchOk(k)
  \/ \E k \in DOMAIN tasks : FetchFail(k)
  \/ \E k \in DOMAIN tasks : TimeoutFire(k)
  \/ \E k \in DOMAIN tasks : HandlerReturn(k)
  \/ \E k \in DOMAIN tasks : HandlerThrow(k)
  \/ \E k \in DOMAIN tasks : ErrorHandlerReturn(k)
  \/ \E k \in DOMAIN tasks : ErrorHandlerThrow(k)

Spec == Init /\ [][Next]_vars

\* ------------------------------------------- stand-alone Timer.formatETA
EtaStep == 1000 \div 2
HourMs == 3600 * 1000
DayMs == 24 * HourMs

\* eta values in milliseconds: whole and half steps up to MaxEtaSteps steps,
\* the values around the minute, hour and day carries, and the eta of an EMA
\* of 2000 ms with 10 remaining items on 5 proxies
EtaInputs ==
  {RatInt(m * EtaStep) : m \in 0..MaxEtaSteps}
    \cup {Rat(2 * m * EtaStep + 1, 2) : m \in 0..MaxEtaSteps}
    \cup {RatInt(HourMs - EtaStep), RatInt(HourMs), RatInt(DayMs - EtaStep),
          RatInt(DayMs), RatInt(DayMs + HourMs + 61 * 1000)}
    \cup {tickEta(RatInt(2000), 10, 5)}

InitRunIdle ==
  /\ proxies = <<>>
  /\ urls = <<>>
  /\ hasErrorHandler = FALSE
  /\ ctorErrors = constructorErrors(<<>>)
  /\ runPc = "created"
  /\ wave = 0
  /\ tasks = <<>>
  /\ timer = NoTimer
  /\ samples = <<>>
  /\ log = <<>>
  /\ now = 0

InitETA ==
  /\ InitRunIdle
  /\ InitGatePassed
  /\ InitExtIdle
  /\ fmtIn \in EtaInputs
  /\ fmtOut = <<>>
  /\ remIn = <<0, 0>>
  /\ remOut = <<>>

\* const etaDisplay = this.formatETA(eta)
FormatETA ==
  /\ fmtOut = <<>>
  /\ fmtOut' = formatETA(fmtIn)
  /\ UNCHANGED <<fmtIn, remIn, remOut>>
  /\ UNCHANGED runVars
  /\ UNCHANGED gateVars
  /\ UNCHANGED extVars

NextETA == FormatETA

SpecETA == InitETA /\ [][NextETA]_vars

\* ------------------------------------- create and waitForProxiesReady
\* Mutant of morePolling: the gate returns once any host has answered
morePollingAny(r, list) == Cardinality(r) = 0 /\ Len(list) > 0

\* Mutant of morePolling: the gate gives up after two passes
morePollingBounded(r, list) == Cardinality(r) < Len(list) /\ pass < 2

\* the loop condition: running.size < this.proxies.length
morePolling(r, list) == Cardinality(r) < Len(list)

\* the synchronous part of the proxies.map callbacks of one pass: a host
\* that is in the Set is skipped, any other is sent a request
beginPass(r) ==
  [i \in DOMAIN proxies |-> IF proxies[i] \in r THEN "skipped" ELSE "pending"]

\* the passes are counted up to MaxPasses
nextPass == Min(pass + 1, MaxPasses)

\* before create is called
InitGate ==
  /\ proxies \in ProxyLists
  /\ \E n \in 0..MaxItems : urls = [k \in 1..n |-> k]
  /\ hasErrorHandler \in BOOLEAN
  /\ ctorErrors = <<>>
  /\ runPc = "none"
  /\ wave = 0
  /\ tasks = [k \in DOMAIN urls |-> IdleTask]
  /\ timer = NoTimer
  /\ samples = <<>>
  /\ log = <<>>
  /\ now = 0
  /\ InitFmtIdle
  /\ gatePc = "new"
  /\ InitExtIdle
  /\ running = {}
  /\ probes = [i \in DOMAIN proxies |-> "none"]
  /\ pass = 0
  /\ firstOk = [h \in Hosts |-> 0]
  /\ gateLog = <<>>

\* create: the constructor, then waitForProxiesReady up to its first await
\* (the requests of the first pass are out), or to its return when the loop
\* condition is false at once
Create ==
  /\ gatePc = "new"
  /\ ctorErrors' = constructorErrors(proxies)
  /\ gateLog' = <<WaitingLine>>
  /\ running' = {}
  /\ IF morePolling({}, proxies)
       THEN /\ gatePc' = "polling"
            /\ probes' = beginPass({})
            /\ pass' = nextPass
            /\ runPc' = runPc
       ELSE /\ gatePc' = "ready"
            /\ runPc' = "created"
            /\ UNCHANGED <<probes, pass>>
  /\ UNCHANGED <<proxies, urls, hasErrorHandler, wave, tasks, timer, samples, log, now,
                 firstOk>>
  /\ UNCHANGED fmtVars
  /\ UNCHANGED extVars

\* the fetch of position i answers: log, running.add(proxy)
ProbeOk(i) ==
  /\ gatePc = "polling"
  /\ i \in DOMAIN probes
  /\ probes[i] = "pending"
  /\ probes' = [probes EXCEPT ![i] = "ok"]
  /\ gateLog' = Append(gateLog, ReadyLine(proxies[i]))
  /\ running' = running \cup {proxies[i]}
  /\ firstOk' = [firstOk EXCEPT ![proxies[i]] = IF @ = 0 THEN pass ELSE @]
  /\ UNCHANGED <<gatePc, pass>>
  /\ UNCHANGED runVars
  /\ UNCHANGED fmtVars
  /\ UNCHANGED extVars

\* the fetch of position i rejects (ECONNREFUSED): the catch block is empty
ProbeFail(i) ==
  /\ gatePc = "polling"
  /\ i \in DOMAIN probes
  /\ probes[i] = "pending"
  /\ probes' = [probes EXCEPT ![i] = "failed"]
  /\ UNCHANGED <<gatePc, running, pass, firstOk, gateLog>>
  /\ UNCHANGED runVars
  /\ UNCHANGED fmtVars
  /\ UNCHANGED extVars

\* Promise.all of the pass resolves: setTimeout(resolve, PING_INTERVAL_MS)
PassDone ==
  /\ gatePc = "polling"
  /\ \A i \in DOMAIN probes : probes[i] # "pending"
  /\ gatePc' = "sleeping"
  /\ UNCHANGED <<running, probes, pass, firstOk, gateLog>>
  /\ UNCHANGED runVars
  /\ UNCHANGED fmtVars
  /\ UNCHANGED extVars

\* the sleep is over: the loop condition, then the next pass or the return
\* of waitForProxiesReady and of create
SleepDone ==
  /\ gatePc = "sleeping"
  /\ IF morePolling(running, proxies)
       THEN /\ gatePc' = "polling"
            /\ probes' = beginPass(running)
            /\ pass' = nextPass
            /\ runPc' = runPc
       ELSE /\ gatePc' = "ready"
            /\ runPc' = "created"
            /\ UNCHANGED <<probes, pass>>
  /\ UNCHANGED <<proxies, urls, hasErrorHandler, ctorErrors, wave, tasks, timer, samples,
                 log, now, running, firstOk, gateLog>>
  /\ UNCHANGED fmtVars
  /\ UNCHANGED extVars

NextGate ==
  \/ Create
  \/ \E i \in 1..MaxProxies : ProbeOk(i)
  \/ \E i \in 1..MaxProxies : ProbeFail(i)
  \/ PassDone
  \/ SleepDone
  \/ RunStart

SpecGate == InitGate /\ [][NextGate]_vars

\* --------------------------------- stand-alone remaining display of tick
\* <<itemsProcessed after the increment, totalItems>>: every count of a run
\* over up to MaxRemTotal items, and the counts 1..MaxRemTotal and the last
\* one of runs over 99, 100, 101 and 1000 items
RemInputs ==
  {x \in (1..MaxRemTotal) \X (1..MaxRemTotal) : x[1] <= x[2]}
    \cup {<<q, t>> : q \in 1..MaxRemTotal, t \in {99, 100, 101, 1000}}
    \cup {<<t, t>> : t \in {99, 100, 101, 1000}}

InitRemaining ==
  /\ InitRunIdle
  /\ InitGatePassed
  /\ InitExtIdle
  /\ fmtIn = RatInt(0)
  /\ fmtOut = <<>>
  /\ remIn \in RemInputs
  /\ remOut = <<>>

\* const remainingDisplay = ... in Timer.tick
FormatRemaining ==
  /\ remOut = <<>>
  /\ remOut' = remainingDisplay(remIn[1], remIn[2])
  /\ UNCHANGED <<fmtIn, fmtOut, remIn>>
  /\ UNCHANGED runVars
  /\ UNCHANGED gateVars
  /\ UNCHANGED extVars

NextRemaining == FormatRemaining

SpecRemaining == InitRemaining /\ [][NextRemaining]_vars

\* ------------------------- AWSProxyManager.waitForInstancesRunning
\* the ids of a set, in increasing order
RECURSIVE SeqOfSet(_)
SeqOfSet(S) ==
  IF S = {} THEN <<>>
  ELSE LET m == CHOOSE x \in S : \A y \in S : x <= y
       IN  <<m>> \o SeqOfSet(S \ {m})

\* the response to DescribeInstances with the instance-id filter: the
\* instances EC2 shows at that moment, in the one reservation of their launch;
\* an instance that is not shown yet matches nothing, and no match is no
\* reservation
describeInstances(inst) ==
  LET shown == SeqOfSet({i \in DOMAIN inst : inst[i] # "absent"})
  IN  IF Len(shown) = 0 THEN <<>>
      ELSE <<[Instances |-> [j \in DOMAIN shown |->
                               [InstanceId |-> shown[j], State |-> inst[shown[j]]]]]>>

\* response.Reservations?.every((reservation) =>
\*   reservation.Instances?.every((instance) => instance.State?.Name === "running"))
allRunning(reservations) ==
  \A r \in DOMAIN reservations :
    \A j \in DOMAIN reservations[r].Instances :
      reservations[r].Instances[j].State = "running"

\* startProxies has launched its instances and is about to wait for them
InitAws ==
  /\ InitRunIdle
  /\ InitGatePassed
  /\ InitFmtIdle
  /\ runs = RunsIdle
  /\ query = QueryIdle
  /\ \E n \in 1..MaxInstances :
       aws = [pc |-> "new", instanceIds |-> [i \in 1..n |-> i],
              inst |-> [i \in 1..n |-> "absent"], reservations |-> <<>>,
              polls |-> 0, log |-> <<>>]

\* waitForInstancesRunning(instanceIds) up to its first await: the first
\* DescribeInstances is sent
AwsWait ==
  /\ aws.pc = "new"
  /\ aws' = [aws EXCEPT !.pc = "polling", !.polls = 1, !.log = Append(aws.log, "waiting")]
  /\ UNCHANGED <<runs, query>>
  /\ UNCHANGED runVars
  /\ UNCHANGED fmtVars
  /\ UNCHANGED gateVars

\* the response arrives: break when allRunning, else the sleep starts
AwsDescribeOk ==
  /\ aws.pc = "polling"
  /\ LET response == describeInstances(aws.inst)
     IN  aws' = [aws EXCEPT !.reservations = response,
                            !.pc = IF allRunning(response) THEN "returned" ELSE "sleeping"]
  /\ UNCHANGED <<runs, query>>
  /\ UNCHANGED runVars
  /\ UNCHANGED fmtVars
  /\ UNCHANGED gateVars

\* ec2Client.send rejects: the exception leaves waitForInstancesRunning, and
\* startProxies logs it and throws it again
AwsDescribeFail ==
  /\ aws.pc = "polling"
  /\ aws' = [aws EXCEPT !.pc = "rejected", !.log = Append(aws.log, "error")]
  /\ UNCHANGED <<runs, query>>
  /\ UNCHANGED runVars
  /\ UNCHANGED fmtVars
  /\ UNCHANGED gateVars

\* the sleep of PING_INTERVAL_MS is over: the next DescribeInstances is sent
\* (the polls are counted up to MaxPolls)
AwsSleepDone ==
  /\ aws.pc = "sleeping"
  /\ aws' = [aws EXCEPT !.pc = "polling", !.polls = Min(aws.polls + 1, MaxPolls)]
  /\ UNCHANGED <<runs, query>>
  /\ UNCHANGED runVars
  /\ UNCHANGED fmtVars
  /\ UNCHANGED gateVars

\* EC2: a launched instance becomes visible as pending, and a pending one
\* becomes running or is terminated
InstanceChange(i) ==
  /\ aws.pc \in {"new", "polling", "sleeping"}
  /\ i \in DOMAIN aws.inst
  /\ \E next \in {"pending", "running", "terminated"} :
       /\ \/ aws.inst[i] = "absent" /\ next = "pending"
          \/ aws.inst[i] = "pending" /\ next \in {"running", "terminated"}
       /\ aws' = [aws EXCEPT !.inst[i] = next]
  /\ UNCHANGED <<runs, query>>
  /\ UNCHANGED runVars
  /\ UNCHANGED fmtVars
  /\ UNCHANGED gateVars

NextAws ==
  \/ AwsWait
  \/ AwsDescribeOk
  \/ AwsDescribeFail
  \/ AwsSleepDone
  \/ \E i \in 1..MaxInstances : InstanceChange(i)

SpecAws == InitAws /\ [][NextAws]_vars

\* ------------------------ two invocations of run on one ProxySwarm
\* Each invocation has its own urls, handlers, timer, Proxy objects and
\* chunks (all local to run); this.proxies is shared. A request that fails
\* stands for a request error as well as for the abort by the item's timer.
Invocations2 == 1..2

TaskIn == [st |-> "idle", slot |-> NoSlot, host |-> 0]

chunksIn(r) == chunk(runs[r].urls, Len(proxies))

\* the chunk.map callbacks of chunk w of invocation r up to their first await
launchIn(r, w) ==
  LET c == chunksIn(r)[w]
  IN  [k \in DOMAIN runs[r].tasks |->
         IF \E i \in 0..(Len(c) - 1) : c[i + 1] = k
         THEN LET i == CHOOSE i \in 0..(Len(c) - 1) : c[i + 1] = k
              IN  [st |-> "fetching", slot |-> i, host |-> proxies[i + 1]]
         ELSE runs[r].tasks[k]]

UnchangedButRuns ==
  /\ UNCHANGED <<aws, query>>
  /\ UNCHANGED runVars
  /\ UNCHANGED fmtVars
  /\ UNCHANGED gateVars

\* a swarm with at least one proxy, and two calls of run not yet made
InitOverlap ==
  /\ proxies \in {l \in ReadyProxyLists : Len(l) >= 1}
  /\ urls = <<>>
  /\ hasErrorHandler = FALSE
  /\ ctorErrors = constructorErrors(proxies)
  /\ runPc = "created"
  /\ wave = 0
  /\ tasks = <<>>
  /\ timer = NoTimer
  /\ samples = <<>>
  /\ log = <<>>
  /\ now = 0
  /\ InitGatePassed
  /\ InitFmtIdle
  /\ aws = AwsIdle
  /\ query = QueryIdle
  /\ runs \in [Invocations2 ->
                 {[pc |-> "created", urls |-> [k \in 1..n |-> k], errorHandler |-> e,
                   wave |-> 0, tasks |-> [k \in 1..n |-> TaskIn], timer |-> NoTimer] :
                    n \in 1..MaxOverlapItems, e \in BOOLEAN}]

\* run(urls, handler, errorHandler?) up to the await of line 201
RunStartIn(r) ==
  /\ runs[r].pc = "created"
  /\ runs' = [runs EXCEPT ![r].pc = "init",
                          ![r].timer = [ema |-> RatInt(0), startTime |-> now,
                                        totalItems |-> Len(runs[r].urls),
                                        itemsProcessed |-> 0]]
  /\ UnchangedButRuns

\* _.chunk and the first iteration of the for loop
RunDispatchIn(r) ==
  /\ runs[r].pc = "init"
  /\ IF Len(chunksIn(r)) = 0
     THEN runs' = [runs EXCEPT ![r].pc = "done"]
     ELSE runs' = [runs EXCEPT ![r].pc = "wave", ![r].wave = 1, ![r].tasks = launchIn(r, 1)]
  /\ UnchangedButRuns

\* await Promise.all(...) of the current chunk fulfils
WaveDoneIn(r) ==
  /\ runs[r].pc = "wave"
  /\ LET c == chunksIn(r)[runs[r].wave]
     IN  \A i \in 1..Len(c) : runs[r].tasks[c[i]].st = "fulfilled"
  /\ IF runs[r].wave < Len(chunksIn(r))
     THEN runs' = [runs EXCEPT ![r].wave = runs[r].wave + 1,
                               ![r].tasks = launchIn(r, runs[r].wave + 1)]
     ELSE runs' = [runs EXCEPT ![r].pc = "done"]
  /\ UnchangedButRuns

\* await Promise.all(...) rejects
RunRejectIn(r) ==
  /\ runs[r].pc = "wave"
  /\ LET c == chunksIn(r)[runs[r].wave]
     IN  \E i \in 1..Len(c) : runs[r].tasks[c[i]].st = "rejected"
  /\ runs' = [runs EXCEPT ![r].pc = "rejected"]
  /\ UnchangedButRuns

FetchOkIn(r, k) ==
  /\ k \in DOMAIN runs[r].tasks
  /\ runs[r].tasks[k].st = "fetching"
  /\ runs' = [runs EXCEPT ![r].tasks[k].st = "handling"]
  /\ UnchangedButRuns

FetchFailIn(r, k) ==
  /\ k \in DOMAIN runs[r].tasks
  /\ runs[r].tasks[k].st = "fetching"
  /\ runs' = [runs EXCEPT ![r].tasks[k].st = "catching"]
  /\ UnchangedButRuns

\* the callback after try/catch/finally: timer.tick on the invocation's timer
finishIn(r, k) ==
  runs' = [runs EXCEPT ![r].tasks[k].st = "fulfilled",
                       ![r].timer = tick(runs[r].timer, now, Len(proxies), now).config]

HandlerReturnIn(r, k) ==
  /\ k \in DOMAIN runs[r].tasks
  /\ runs[r].tasks[k].st = "handling"
  /\ finishIn(r, k)
  /\ UnchangedButRuns

HandlerThrowIn(r, k) ==
  /\ k \in DOMAIN runs[r].tasks
  /\ runs[r].tasks[k].st = "handling"
  /\ runs' = [runs EXCEPT ![r].tasks[k].st = "catching"]
  /\ UnchangedButRuns

ErrorHandlerReturnIn(r, k) ==
  /\ k \in DOMAIN runs[r].tasks
  /\ runs[r].tasks[k].st = "catching"
  /\ finishIn(r, k)
  /\ UnchangedButRuns

ErrorHandlerThrowIn(r, k) ==
  /\ k \in DOMAIN runs[r].tasks
  /\ runs[r].tasks[k].st = "catching"
  /\ runs[r].errorHandler
  /\ runs' = [runs EXCEPT ![r].tasks[k].st = "rejected"]
  /\ UnchangedButRuns

NextOverlap ==
  \/ \E r \in Invocations2 : RunStartIn(r)
  \/ \E r \in Invocations2 : RunDispatchIn(r)
  \/ \E r \in Invocations2 : WaveDoneIn(r)
  \/ \E r \in Invocations2 : RunRejectIn(r)
  \/ \E r \in Invocations2 : \E k \in 1..MaxOverlapItems : FetchOkIn(r, k)
  \/ \E r \in Invocations2 : \E k \in 1..MaxOverlapItems : FetchFailIn(r, k)
  \/ \E r \in Invocations2 : \E k \in 1..MaxOverlapItems : HandlerReturnIn(r, k)
  \/ \E r \in Invocations2 : \E k \in 1..MaxOverlapItems : HandlerThrowIn(r, k)
  \/ \E r \in Invocations2 : \E k \in 1..MaxOverlapItems : ErrorHandlerReturnIn(r, k)
  \/ \E r \in Invocations2 : \E k \in 1..MaxOverlapItems : ErrorHandlerThrowIn(r, k)

SpecOverlap == InitOverlap /\ [][NextOverlap]_vars

\* ------------------------------------------------- AuthManager.query
\* The signal of a request is named by the call of query whose
\* AbortController it belongs to (1 for the top-level call, 2 for the call it
\* makes of itself); a config handed in by the caller of the top-level call
\* has none of them
CallerSignal == 0
NoConfig == 0 - 1

Statuses == {200, 403, 404, 500}

\* Mutant of retryAllowed: a 404 is retried like any other status
retryAllowedAny(retry, status) == retry

\* retry && res.status !== 404
retryAllowed(retry, status) == retry /\ status # 404

\* query(url, config, retry) up to await nodeFetch: a new controller and its
\* timer, requestConfig = config || {..., signal: controller.signal}, and the
\* request is issued
beginQuery(q, config, retry) ==
  LET n      == Len(q.calls) + 1
      signal == IF config = NoConfig THEN n ELSE config
  IN  [q EXCEPT !.pc = "fetching",
                !.timeout[n] = "pending",
                !.calls = Append(q.calls,
                                 [signal |-> signal,
                                  abortedAtStart |-> (signal # CallerSignal /\ q.aborted[signal]),
                                  retry |-> retry, status |-> 0, threw |-> "no"])]

\* finally { clearTimeout(timeout) } of call n
endQuery(q, n) == [q EXCEPT !.timeout[n] = clearTimeout(q.timeout[n])]

CurrentCall == Len(query.calls)
CurrentSignal == query.calls[CurrentCall].signal
SignalAborted == CurrentSignal # CallerSignal /\ query.aborted[CurrentSignal]

UnchangedButQuery ==
  /\ UNCHANGED <<aws, runs>>
  /\ UNCHANGED runVars
  /\ UNCHANGED fmtVars
  /\ UNCHANGED gateVars

\* an AuthManager, and a top-level call of query not yet made, with or
\* without a config argument
InitQuery ==
  /\ InitRunIdle
  /\ InitGatePassed
  /\ InitFmtIdle
  /\ aws = AwsIdle
  /\ runs = RunsIdle
  /\ \E c \in BOOLEAN :
       query = [pc |-> "idle", hasConfig |-> c, calls |-> <<>>,
                aborted |-> [n \in 1..2 |-> FALSE],
                timeout |-> [n \in 1..2 |-> "none"],
                logins |-> 0]

\* the top-level call: query(url) or query(url, config), retry = true
QueryCall ==
  /\ query.pc = "idle"
  /\ query' = beginQuery(query, IF query.hasConfig THEN CallerSignal ELSE NoConfig, TRUE)
  /\ UnchangedButQuery

\* the catch block of the current call: query calls itself with its
\* requestConfig and retry = false, or throws; then finally
catchQuery(cause) ==
  LET n == CurrentCall
      q == [query EXCEPT !.calls[n].threw = cause]
  IN  IF q.calls[n].retry
      THEN endQuery(beginQuery(q, q.calls[n].signal, FALSE), n)
      ELSE endQuery([q EXCEPT !.pc = "thrown"], n)

\* await nodeFetch rejects: no connection, proxy or DNS error
QueryFetchError ==
  /\ query.pc = "fetching"
  /\ ~SignalAborted
  /\ query' = catchQuery("error")
  /\ UnchangedButQuery

\* await nodeFetch rejects with an AbortError: the signal of the request is
\* aborted
QueryFetchAbort ==
  /\ query.pc = "fetching"
  /\ SignalAborted
  /\ query' = catchQuery("abort")
  /\ UnchangedButQuery

\* await nodeFetch fulfils with a response: finally, then the status
QueryResponse(status) ==
  /\ query.pc = "fetching"
  /\ ~SignalAborted
  /\ LET n == CurrentCall
         q == endQuery([query EXCEPT !.calls[n].status = status], n)
     IN  query' =
           IF status >= 400
           THEN IF retryAllowed(q.calls[n].retry, status)
                THEN IF status = 403
                     THEN [q EXCEPT !.pc = "login", !.logins = q.logins + 1]
                     ELSE beginQuery(q, q.calls[n].signal, FALSE)
                ELSE [q EXCEPT !.pc = "thrown"]
           ELSE [q EXCEPT !.pc = "parsing"]
  /\ UnchangedButQuery

\* await this.login(false) returns: query calls itself
QueryLoginReturn ==
  /\ query.pc = "login"
  /\ query' = beginQuery(query, CurrentSignal, FALSE)
  /\ UnchangedButQuery

\* login throws (its request fails, or no token in the response)
QueryLoginThrow ==
  /\ query.pc = "login"
  /\ query' = [query EXCEPT !.pc = "thrown"]
  /\ UnchangedButQuery

\* login gets a status of 400 or more: process.exit(1)
QueryLoginExit ==
  /\ query.pc = "login"
  /\ query' = [query EXCEPT !.pc = "exited"]
  /\ UnchangedButQuery

\* res.json() fulfils
QueryParseOk ==
  /\ query.pc = "parsing"
  /\ query' = [query EXCEPT !.pc = "returned"]
  /\ UnchangedButQuery

\* res.json() rejects
QueryParseFail ==
  /\ query.pc = "parsing"
  /\ query' = [query EXCEPT !.pc = "thrown"]
  /\ UnchangedButQuery

\* setTimeout(() => controller.abort(), 5000) of call n fires
QueryTimeoutFire(n) ==
  /\ query.timeout[n] = "pending"
  /\ query' = [query EXCEPT !.timeout[n] = "fired", !.aborted[n] = TRUE]
  /\ UnchangedButQuery

NextQuery ==
  \/ QueryCall
  \/ QueryFetchError
  \/ QueryFetchAbort
  \/ \E status \in Statuses : QueryResponse(status)
  \/ QueryLoginReturn
  \/ QueryLoginThrow
  \/ QueryLoginExit
  \/ QueryParseOk
  \/ QueryParseFail
  \/ \E n \in 1..2 : QueryTimeoutFire(n)

SpecQuery == InitQuery /\ [][NextQuery]_vars

\* ================================================================ claims
Items == DOMAIN tasks
P == Len(proxies)

RECURSIVE SumOver(_, _)
SumOver(f, S) ==
  IF S = {} THEN 0
  ELSE LET x == CHOOSE x \in S : TRUE IN f[x] + SumOver(f, S \ {x})

Invocations == [k \in Items |-> tasks[k].handlerCalls + tasks[k].errCalls]

\* the item's request failed or timed out, or its handler threw
Failed(k) == tasks[k].req \in {"error", "timeout"} \/ tasks[k].hres = "threw"

\* C1 as claimed: when run has finished over a non-empty item sequence with a
\* non-empty proxy list, handler or errorHandler was invoked exactly once for
\* every item and the invocations total len(items).
C1_ExactlyOneInvocationPerItem ==
  (runPc = "done" /\ Len(urls) >= 1 /\ P >= 1) =>
    /\ \A k \in Items : Invocations[k] = 1
    /\ SumOver(Invocations, Items) = Len(urls)

\* C1 as amended: in every state, for every item, handler has been invoked
\* exactly once if the item's request completed and never otherwise, and
\* errorHandler exactly once if one was supplied and the item failed (request
\* error, timeout or handler exception) and never otherwise; when run has
\* finished every item's request has had its outcome.  So an item gets two
\* invocations when its handler throws and an errorHandler is supplied, none
\* when its request fails and no errorHandler is supplied, and one otherwise.
C1_InvocationsFollowOutcome ==
  /\ \A k \in Items :
       /\ tasks[k].handlerCalls = IF tasks[k].req = "ok" THEN 1 ELSE 0
       /\ tasks[k].errCalls = IF hasErrorHandler /\ Failed(k) THEN 1 ELSE 0
  /\ (runPc = "done" /\ P >= 1) =>
       \A k \in Items : tasks[k].st = "fulfilled" /\ tasks[k].req # "none"

\* run has finished over two items or more, one of which had its handler and
\* then the errorHandler invoked, another its handler alone
C1_Witness ==
  /\ runPc = "done"
  /\ \E k \in Items : tasks[k].handlerCalls = 1 /\ tasks[k].errCalls = 1
  /\ \E k \in Items : tasks[k].handlerCalls = 1 /\ tasks[k].errCalls = 0

\* item k belongs to wave w: chunk w holds it
InWave(k, w) == \E i \in 1..Len(chunks[w]) : chunks[w][i] = k

\* C2: wave barrier: a task of a later wave has been started only if every
\* task of every earlier wave has settled.
C2_WaveBarrier ==
  \A v, w \in 1..Len(chunks) : \A j, k \in Items :
    (v < w /\ InWave(k, v) /\ InWave(j, w) /\ tasks[j].st # "idle") => Settled(tasks[k])

\* a task of the second wave is in flight after a first wave of two tasks
C2_Witness ==
  /\ P >= 2 /\ Len(chunks) >= 2
  /\ \E j \in Items : InWave(j, 2) /\ Active(tasks[j])

\* C3: the item at input position k (0-based) is sent through the proxy at
\* position k mod P of the proxy list (items are numbered from 1 here, and
\* sequences are indexed from 1).
C3_SlotIsPositionModP ==
  \A k \in Items :
    tasks[k].st # "idle" =>
      /\ tasks[k].slot = (k - 1) % P
      /\ tasks[k].host = proxies[((k - 1) % P) + 1]

\* with two distinct proxies, the last item of a second wave has been
\* started after the first wave completed in reverse order
C3_Witness ==
  /\ P = 2 /\ Len(urls) >= 3
  /\ proxies[1] # proxies[2]
  /\ Len(log) >= 2 /\ log[1].item = 2 /\ log[2].item = 1
  /\ tasks[3].st # "idle"

InFlight == {k \in Items : Active(tasks[k])}

\* C4: at most P tasks are started and not yet settled, and no two of them
\* use the same proxy (the same position of the proxy list).
C4_ConcurrencyCappedAtProxyCount ==
  /\ Cardinality(InFlight) <= P
  /\ \A j, k \in InFlight : j # k => tasks[j].slot # tasks[k].slot

\* as many tasks in flight as there are proxies, with two proxies
C4_Witness ==
  /\ P = 2
  /\ Cardinality(InFlight) = 2

\* run has returned or thrown and no task is left running
RunOver == runPc \in {"done", "rejected"} /\ InFlight = {}

\* C5 as claimed: a failure never aborts the run: once the run is over, every
\* item has been dispatched and has reached an outcome.
C5_FailureNeverAbortsRun ==
  (RunOver /\ P >= 1) => \A k \in Items : tasks[k].st # "idle" /\ tasks[k].req # "none"

\* C6 as claimed: the promise returned by run never rejects.
C6_RunNeverRejects == runPc # "rejected"

\* C7 as claimed: tick has been called exactly once for every item whose
\* outcome is determined and never for another, itemsProcessed counts these
\* items and never exceeds totalItems.
C7_TickOncePerSettledItem ==
  /\ \A k \in Items : tasks[k].tickCalls = IF Settled(tasks[k]) THEN 1 ELSE 0
  /\ timer.itemsProcessed = Cardinality({k \in Items : Settled(tasks[k])})
  /\ timer.itemsProcessed <= timer.totalItems

Front(ds) == SubSeq(ds, 1, Len(ds) - 1)

\* ema_1 = d1, ema_i = alpha * d_i + (1 - alpha) * ema_(i-1); 0 before d1
RECURSIVE EmaRecursion(_)
EmaRecursion(ds) ==
  IF Len(ds) = 0 THEN RatInt(0)
  ELSE IF Len(ds) = 1 THEN RatInt(ds[1])
  ELSE RatAdd(RatMul(Alpha, RatInt(ds[Len(ds)])),
              RatMul(RatSub(RatInt(1), Alpha), EmaRecursion(Front(ds))))

RECURSIVE DropLeadingZeros(_)
DropLeadingZeros(ds) ==
  IF Len(ds) > 0 /\ ds[1] = 0 THEN DropLeadingZeros(Tail(ds)) ELSE ds

\* C8 as claimed: after the ticks with durations d1..dk, ema is the value of
\* the recursion over d1..dk and itemsProcessed is k.
C8_EmaIsRecursion ==
  /\ timer.ema = EmaRecursion(samples)
  /\ timer.itemsProcessed = Len(samples)

\* C8 as amended: after the ticks with durations d1..dk, itemsProcessed is k
\* and ema is the value of the recursion started at the first non-zero
\* duration: 0 while every duration was 0, d_j at the first d_j > 0, and
\* alpha * d_i + (1 - alpha) * ema_(i-1) from then on.
C8_EmaIsRecursionFromFirstNonZero ==
  /\ timer.ema = EmaRecursion(DropLeadingZeros(samples))
  /\ timer.itemsProcessed = Len(samples)

\* three ticks, the first with a duration of 0 ms, the second not
C8_Witness ==
  /\ Len(samples) >= 3
  /\ samples[1] = 0
  /\ samples[2] > 0

\* C9 as claimed: ema is 0 exactly when no tick has occurred.
C9_EmaZeroIffNoSample == RatIsZero(timer.ema) <=> timer.itemsProcessed = 0

\* C9 as amended: ema is never negative, and it is 0 exactly when every
\* duration measured so far is 0 ms (as before the first tick); it is
\* strictly positive once a tick has measured a positive duration.
C9_EmaZeroIffNoPositiveSample ==
  /\ timer.ema[1] >= 0 /\ timer.ema[2] > 0
  /\ RatIsZero(timer.ema) <=> \A i \in 1..Len(samples) : samples[i] = 0
  /\ timer.itemsProcessed = 0 => RatIsZero(timer.ema)

\* a tick has occurred and ema is still 0
C9_Witness ==
  /\ timer.itemsProcessed >= 1
  /\ RatIsZero(timer.ema)

IsDigit(c) == \E d \in 1..10 : DigitChars[d] = c
DigitVal(c) == (CHOOSE d \in 1..10 : DigitChars[d] = c) - 1
TwoDigits(str, i) == 10 * DigitVal(str[i]) + DigitVal(str[i + 1])

\* C10 as claimed: a formatted eta is ddd:hh:mm:ss, three digits then three
\* times two digits, with hh in 0..23, mm in 0..59 and ss in 0..59, and the
\* eta of an EMA of 2000 ms, 10 remaining items and 5 proxies is 000:00:00:04.
C10_EtaFieldsInRange ==
  fmtOut # <<>> =>
    /\ Len(fmtOut) = 12
    /\ \A i \in {4, 7, 10} : fmtOut[i] = ":"
    /\ \A i \in (1..12) \ {4, 7, 10} : IsDigit(fmtOut[i])
    /\ TwoDigits(fmtOut, 5) \in 0..23
    /\ TwoDigits(fmtOut, 8) \in 0..59
    /\ TwoDigits(fmtOut, 11) \in 0..59
    /\ fmtIn = tickEta(RatInt(2000), 10, 5) =>
         fmtOut = <<"0", "0", "0", ":", "0", "0", ":", "0", "0", ":", "0", "4">>

\* the number of decimal digits of n >= 1: the least d with n < 10^d
RECURSIVE Pow10(_)
Pow10(d) == IF d = 0 THEN 1 ELSE 10 * Pow10(d - 1)
DigitCount(n) == CHOOSE d \in 1..10 : n < Pow10(d) /\ (d = 1 \/ n >= Pow10(d - 1))

\* the value of a string of decimal digits
RECURSIVE ParseNat(_)
ParseNat(str) ==
  IF Len(str) = 0 THEN 0
  ELSE 10 * ParseNat(SubSeq(str, 1, Len(str) - 1)) + DigitVal(str[Len(str)])

\* C11: the remaining string is the processed count, left-padded with spaces
\* to the number of digits of totalItems, then "/" and totalItems; 7 of 100
\* gives "  7/100".
C11_RemainingIsPaddedCount ==
  remOut # <<>> =>
    LET q == remIn[1]
        t == remIn[2]
        w == DigitCount(t)
        pad == w - DigitCount(q)
    IN  /\ Len(remOut) = 2 * w + 1
        /\ remOut[w + 1] = "/"
        /\ \A i \in 1..pad : remOut[i] = " "
        /\ \A i \in ((pad + 1)..w) \cup ((w + 2)..(2 * w + 1)) : IsDigit(remOut[i])
        /\ ParseNat(SubSeq(remOut, pad + 1, w)) = q
        /\ ParseNat(SubSeq(remOut, w + 2, 2 * w + 1)) = t
        /\ (q = 7 /\ t = 100) => remOut = <<" ", " ", "7", "/", "1", "0", "0">>

\* the display of 7 processed items of 100 has been computed
C11_Witness ==
  /\ remOut # <<>>
  /\ remIn = <<7, 100>>

\* C12: create resolves, and a run can begin, only when every host of the
\* list has answered a probe, in a pass that is not later than the one the
\* gate returned after
C12_GateReturnsAfterEveryHostAnswered ==
  /\ runPc # "none" => gatePc = "ready"
  /\ gatePc = "ready" =>
       \A i \in DOMAIN proxies :
         /\ proxies[i] \in running
         /\ firstOk[proxies[i]] >= 1
         /\ firstOk[proxies[i]] <= pass

C12_Witness ==
  /\ runPc = "init"
  /\ proxies = <<1, 2>>
  /\ firstOk[1] = 1
  /\ firstOk[2] = 2

NoGateError ==
  /\ gatePc \in {"new", "polling", "sleeping", "ready"}
  /\ \A j \in DOMAIN gateLog : gateLog[j].kind \in {"waiting", "ready"}

Unanswered == {i \in DOMAIN proxies : proxies[i] \notin running}

\* C13: while a host of the list has not answered, no step of the gate
\* returns or reports an error, whatever the number of passes made; the step
\* after a pass is the sleep, and the step after a sleep is a new pass that
\* sends every unanswered host a request
C13_GatePollsWhileUnanswered ==
  [][(gatePc \in {"polling", "sleeping"} /\ Unanswered' # {}) =>
       /\ gatePc' \in {"polling", "sleeping"}
       /\ runPc' = "none"
       /\ NoGateError'
       /\ (gatePc = "polling" /\ gatePc' # "polling") =>
            (gatePc' = "sleeping" /\ \A i \in DOMAIN probes : probes[i] # "pending")
       /\ gatePc = "sleeping" =>
            (gatePc' = "polling" /\ \A i \in Unanswered' : probes'[i] = "pending")]_vars

C13_Witness ==
  /\ pass = MaxPasses
  /\ gatePc = "polling"
  /\ \E i \in DOMAIN proxies : firstOk[proxies[i]] = 0 /\ probes[i] = "failed"

\* C14 as claimed: an item whose abort timer fired (its request or its
\* handler was not finished TIMEOUT_MS after the task started) is a failure
\* once its task has settled, with errorHandler (when given) called for it,
\* and no task is still unsettled after its deadline
C14_TimeoutFailsItemWithinBound ==
  \A k \in Items :
    /\ (tasks[k].timeout = "fired" /\ Settled(tasks[k])) =>
         /\ ~tasks[k].success
         /\ hasErrorHandler => tasks[k].errCalls = 1
    /\ Active(tasks[k]) => now <= tasks[k].start + TIMEOUT_MS

\* C15: a step in which the abort timer of one item fires changes the task of
\* no other item
C15_TimeoutTouchesOnlyItsItem ==
  [][\A k \in Items :
       (tasks[k].timeout = "pending" /\ tasks'[k].timeout = "fired") =>
         \A j \in Items \ {k} : tasks'[j] = tasks[j]]_vars

C15_Witness ==
  \E k, j \in Items :
    /\ tasks[k].wv = tasks[j].wv
    /\ tasks[k].req = "timeout"
    /\ tasks[j].req = "ok"
    /\ tasks[j].success

RECURSIVE Flatten(_)
Flatten(ss) == IF Len(ss) = 0 THEN <<>> ELSE Flatten(Front(ss)) \o ss[Len(ss)]

Started(k) == tasks[k].st # "idle"

\* C16: for P >= 1 the chunks are ceil(n/P) in number, each but the last of P
\* items and the last of 1..P items, their concatenation is the input, every
\* started item k was dispatched in wave floor((k-1)/P)+1 together with the
\* whole of its chunk and nothing else, and an item at least P positions
\* before a started item was dispatched in an earlier wave
C16_WavesPartitionInput ==
  P >= 1 =>
    LET n == Len(urls)
    IN  /\ Len(chunks) * P >= n
        /\ (Len(chunks) - 1) * P < n
        /\ \A w \in 1..Len(chunks) :
             /\ Len(chunks[w]) \in 1..P
             /\ w < Len(chunks) => Len(chunks[w]) = P
        /\ Flatten(chunks) = urls
        /\ \A k \in Items :
             Started(k) => (tasks[k].wv = ((k - 1) \div P) + 1 /\ InWave(k, tasks[k].wv))
        /\ \A w \in 1..Len(chunks) :
             Cardinality({k \in Items : tasks[k].wv = w}) \in {0, Len(chunks[w])}
        /\ \A a, b \in Items :
             (b - a >= P /\ Started(b)) =>
               (tasks[a].wv >= 1 /\ tasks[a].wv < tasks[b].wv /\ Settled(tasks[a]))

C16_Witness ==
  /\ P = 2
  /\ Len(urls) = 3
  /\ runPc = "done"

\* C17: the constructor reports the empty proxy list (and nothing for any
\* other list) and the swarm is handed out all the same; a run with the empty
\* list does not reject, starts no task, calls neither handler nor
\* errorHandler nor tick and writes no progress line
C17_EmptyProxyListNoProgress ==
  /\ ctorErrors = IF P = 0 THEN <<NoProxiesError>> ELSE <<>>
  /\ P = 0 =>
       /\ gatePc = "ready"
       /\ runPc # "rejected"
       /\ \A k \in Items : tasks[k] = IdleTask
       /\ timer.itemsProcessed = 0
       /\ samples = <<>>
       /\ \A j \in DOMAIN log : log[j].kind = "done"

C17_Witness ==
  /\ P = 0
  /\ Len(urls) = MaxItems
  /\ ctorErrors = <<NoProxiesError>>
  /\ runPc = "done"

DoneCount == Cardinality({j \in DOMAIN log : log[j].kind = "done"})

\* C18 as claimed: the completion notice is written at most once, exactly
\* once when the run is over, and when it is written it is the last line,
\* every item has fulfilled and has its progress line, and itemsProcessed
\* equals totalItems
C18_DoneOnceAfterAllItems ==
  /\ DoneCount <= 1
  /\ RunOver => DoneCount = 1
  /\ DoneCount = 1 =>
       /\ log[Len(log)].kind = "done"
       /\ \A k \in Items :
            /\ tasks[k].st = "fulfilled"
            /\ \E j \in DOMAIN log : log[j].kind = "line" /\ log[j].item = k
       /\ timer.itemsProcessed = timer.totalItems

EventsBefore(e, i, name) == Cardinality({j \in 1..(i - 1) : e[j].e = name})

\* C19: in the events of every item, the start time is taken before the
\* request; a tick comes only when the outcome is determined (no handler or
\* errorHandler call is open, and one has ended or, without errorHandler, the
\* request has failed), is directly followed by the item's progress line, and
\* that line shows the count and the remaining string of that tick; an item
\* that has not settled has no tick
C19_PerItemEventOrder ==
  \A k \in Items :
    LET e == tasks[k].ev
    IN  /\ \A i \in DOMAIN e :
             e[i].e = "request" => \E j \in 1..(i - 1) : e[j].e = "start"
        /\ \A i \in DOMAIN e :
             e[i].e = "tick" =>
               /\ tasks[k].req # "none"
               /\ EventsBefore(e, i, "handler") = EventsBefore(e, i, "handlerEnd")
               /\ EventsBefore(e, i, "errorHandler") = EventsBefore(e, i, "errorHandlerEnd")
               /\ \E j \in 1..(i - 1) :
                    \/ e[j].e \in {"handlerEnd", "errorHandlerEnd"}
                    \/ ~hasErrorHandler /\ e[j].e \in {"requestError", "abort"}
               /\ i < Len(e)
               /\ e[i + 1] = EvN("line", e[i].n)
               /\ \E j \in DOMAIN log :
                    /\ log[j].kind = "line"
                    /\ log[j].item = k
                    /\ log[j].ok = tasks[k].success
                    /\ log[j].processed = e[i].n
                    /\ log[j].remaining = remainingDisplay(e[i].n, timer.totalItems)
        /\ \A i \in DOMAIN e : e[i].e = "line" => (i > 1 /\ e[i - 1].e = "tick")
        /\ tasks[k].tickCalls = Cardinality({i \in DOMAIN e : e[i].e = "tick"})
        /\ ~Settled(tasks[k]) => tasks[k].tickCalls = 0

C19_Witness ==
  /\ \E k \in Items : tasks[k].st = "fulfilled" /\ tasks[k].eres = "returned"
  /\ \E k \in Items : tasks[k].st = "fulfilled" /\ tasks[k].success

\* C20: a settled task has no pending abort timer (its clearTimeout has run),
\* whatever its outcome, and no abort timer is pending when run has returned
C20_TimerClearedBeforeSettle ==
  /\ \A k \in Items :
       Settled(tasks[k]) =>
         /\ tasks[k].timeout \in {"cleared", "fired"}
         /\ \E i \in DOMAIN tasks[k].ev : tasks[k].ev[i].e = "clearTimeout"
  /\ runPc = "done" => \A k \in Items : tasks[k].timeout # "pending"

C20_Witness ==
  /\ runPc = "done"
  /\ \E k \in Items : tasks[k].success /\ tasks[k].timeout = "cleared"
  /\ \E k \in Items : tasks[k].req = "timeout"
  /\ \E k \in Items : tasks[k].hres = "threw"

LinesOf(k) == {j \in DOMAIN log : log[j].kind = "line" /\ log[j].item = k}

\* C21 as claimed: every item whose task has settled has exactly one progress
\* line, no item has more than one, and the line is styled as success exactly
\* when the request completed and the handler returned
C21_OneStyledLinePerItem ==
  \A k \in Items :
    /\ Cardinality(LinesOf(k)) <= 1
    /\ Settled(tasks[k]) => Cardinality(LinesOf(k)) = 1
    /\ \A j \in LinesOf(k) :
         log[j].ok <=> (tasks[k].req = "ok" /\ tasks[k].hres = "returned")

\* C22: the request of an item is issued at most once in a run, and exactly
\* once for an item that was dispatched, whatever its outcome
C22_RequestIssuedAtMostOnce ==
  \A k \in Items :
    /\ tasks[k].fetchCalls = IF Started(k) THEN 1 ELSE 0
    /\ Cardinality({i \in DOMAIN tasks[k].ev : tasks[k].ev[i].e = "request"})
         = tasks[k].fetchCalls

C22_Witness ==
  /\ runPc = "done"
  /\ \E k \in Items : tasks[k].req = "error"
  /\ \E k \in Items : tasks[k].req = "timeout"
  /\ \E k \in Items : tasks[k].req = "ok" /\ tasks[k].hres = "threw"

ZeroEta == <<"0", "0", "0", ":", "0", "0", ":", "0", "0", ":", "0", "0">>

ReportedRunning(i) ==
  \E r \in DOMAIN aws.reservations :
    \E j \in DOMAIN aws.reservations[r].Instances :
      /\ aws.reservations[r].Instances[j].InstanceId = i
      /\ aws.reservations[r].Instances[j].State = "running"

\* C24 as claimed: waitForInstancesRunning has returned only if the last
\* response reports every instance id it was given as running
C24_ReturnsOnlyWhenAllReportedRunning ==
  aws.pc = "returned" =>
    \A i \in DOMAIN aws.instanceIds : ReportedRunning(aws.instanceIds[i])

\* C25 as claimed, in its finite form: once every endpoint of the list has
\* answered a probe, the gate returns at the end of the sleep that follows
\* (it starts no further pass), for every list, also one that names a host
\* twice
C25_GateReturnsOnceAllAnswered ==
  [][(gatePc = "sleeping" /\ \A i \in DOMAIN proxies : proxies[i] \in running) =>
       gatePc' = "ready"]_vars

LinesBefore(j) == Cardinality({i \in 1..(j - 1) : log[i].kind = "line"})

\* C26: the progress line emitted as the j-th of a run shows the processed
\* count j, and a run that has returned with a non-empty proxy list has
\* emitted as many lines as it has items
C26_ProcessedCountsInEmissionOrder ==
  /\ \A j \in DOMAIN log : log[j].kind = "line" => log[j].processed = LinesBefore(j) + 1
  /\ (runPc = "done" /\ P >= 1) => LinesBefore(Len(log) + 1) = Len(urls)

C26_Witness ==
  /\ runPc = "done"
  /\ Len(urls) = 3
  /\ log[1].item = 2
  /\ log[2].item = 1
  /\ log[3].item = 3

\* C28: a run over no item with a non-empty proxy list enters no wave, has no
\* task, never ticks, does not reject, and when it has returned the
\* completion notice is all it has written
C28_EmptyItemsOnlyDone ==
  (Len(urls) = 0 /\ P >= 1) =>
    /\ runPc \in {"created", "init", "done"}
    /\ wave = 0
    /\ Len(chunks) = 0
    /\ tasks = <<>>
    /\ timer.itemsProcessed = 0
    /\ samples = <<>>
    /\ log = IF runPc = "done" THEN <<DoneLine>> ELSE <<>>

C28_Witness ==
  /\ Len(urls) = 0
  /\ P = MaxProxies
  /\ runPc = "done"
  /\ log = <<DoneLine>>

RequestsOut ==
  {x \in Invocations2 \X (1..MaxOverlapItems) :
     x[2] \in DOMAIN runs[x[1]].tasks /\ runs[x[1]].tasks[x[2]].st = "fetching"}

\* C27 as claimed: with two invocations of run on one swarm, no host has more
\* than one request out at a time, and the requests out are never more than
\* the proxies
C27_OverlappingRunsShareTheCap ==
  /\ \A h \in Hosts :
       Cardinality({x \in RequestsOut : runs[x[1]].tasks[x[2]].host = h}) <= 1
  /\ Cardinality(RequestsOut) <= Len(proxies)

\* what C29 says of the retry: the first call is made with retry and the
\* second without; a call that got a 404 is followed by no other and throws;
\* login is called exactly when the first call got a 403, before the second
\* call is made; and a second call that threw or got a status of 400 or more
\* ends in a throw
QueryRetryRules ==
  /\ \A n \in DOMAIN query.calls : query.calls[n].retry <=> n = 1
  /\ \A n \in DOMAIN query.calls :
       query.calls[n].status = 404 => (n = Len(query.calls) /\ query.pc = "thrown")
  /\ query.logins = (IF Len(query.calls) >= 1 /\ query.calls[1].status = 403 THEN 1 ELSE 0)
  /\ query.pc = "login" => Len(query.calls) = 1
  /\ (Len(query.calls) = 2 /\ (query.calls[2].threw # "no" \/ query.calls[2].status >= 400))
       => query.pc = "thrown"

\* C29 as claimed: a top-level call of query issues at most two HTTP requests
\* in all, with the retry rules
C29_AtMostTwoHttpRequests ==
  /\ Len(query.calls) + query.logins <= 2
  /\ QueryRetryRules

\* C29 as amended: a top-level call of query issues at most two requests for
\* its url, and the one request of login after a 403, with the retry rules
C29_AtMostTwoAttemptsAndOneLogin ==
  /\ Len(query.calls) <= 2
  /\ query.logins <= 1
  /\ QueryRetryRules

C29_Witness ==
  /\ Len(query.calls) = 2
  /\ query.calls[1].status = 403
  /\ query.logins = 1
  /\ query.calls[2].status = 500
  /\ query.pc = "thrown"

\* C30 as claimed: the request of every call of query carries the signal of
\* that call's own controller, whose timer was started with the call, and the
\* signal is not aborted when the request is issued
C30_EachAttemptHasItsOwnLiveSignal ==
  \A n \in DOMAIN query.calls :
    /\ query.calls[n].signal = n
    /\ ~query.calls[n].abortedAtStart

====
